---- MODULE Spec2Model ----
(***************************************************************************)
(* A model of the Reddit stock-mention analyzer: the performance           *)
(* calculator (stock_analyzer.py), the sqlite store (database.py), the     *)
(* ticker validation (ticker_extractor.py), the forum scraper              *)
(* (reddit_scraper.py) and the pipeline (main.py).                         *)
(*                                                                         *)
(* Dates are day numbers; a datetime is the integer                        *)
(* day * TicksPerDay + time-of-day.  Prices are integers (cents); a return *)
(* is the exact rational <<numerator, denominator>> in lowest terms.       *)
(* An Optional value is <<>> (None) or <<v>>.                              *)
(***************************************************************************)
EXTENDS Integers, Sequences, FiniteSets, TLC

VARIABLES
  mentions,    \* calculate_performance: the mention list passed in
  market,      \* the provider's price history of every ticker
  cp,          \* calculate_performance: the loop's position and locals
  a_mention,   \* alignment of one pair: the mention
  a_data,      \* alignment of one pair: the fetched price frame
  a_result,    \* alignment of one pair: what the try block produced
  a_returned,  \* alignment of one pair: the list calculate_performance returned
  v_provider,  \* validate_ticker: what the provider answers for the candidate
  v_result,    \* validate_ticker: "pending", then "accepted" or "rejected"
  db_mentions, \* the stock_mentions table: a set of rows
  db_perf,     \* the stock_performance table: a set of rows
  run,         \* run_analysis: its position and locals
  p_data,      \* analyze_profitability: the rows passed in
  p_results,   \* analyze_profitability: the dict it returned
  x_text,      \* extract_tickers_from_text: the text passed in
  x_listed,    \* extract_tickers_from_text: the symbols the provider lists
  x_result     \* extract_tickers_from_text: what the call returned and did

loopVars == << mentions, market, cp >>
alignVars == << a_mention, a_data, a_result, a_returned >>
validateVars == << v_provider, v_result >>
storeVars == << db_mentions, db_perf, run >>
reportVars == << p_data, p_results >>
extractVars == << x_text, x_listed, x_result >>
vars == << mentions, market, cp, a_mention, a_data, a_result, a_returned,
          v_provider, v_result, db_mentions, db_perf, run,
          p_data, p_results, x_text, x_listed, x_result >>

\* ------------------------------------------------------------- bounds
\* Time-of-day resolution of a datetime.
TicksPerDay == 2
\* Longest price series drawn for the alignment of one pair.
MaxSeriesLen == 2
\* Longest mention list passed to calculate_performance.
MaxMentions == 2
\* The calendar day of the earliest post.
PostDay0 == 10
\* Most rows in the provider's trailing 5-day history of a candidate.
MaxHistoryRows == 2
\* Most posts in one forum listing.
MaxPosts == 2
\* The host's offset from UTC, in ticks (datetime.fromtimestamp is local time).
LocalUtcOffset == 1

\* ---------------------------------------------------------- constants
\* stock_analyzer.py:43  start_date = post date - 1 day
StartLagDays == 1
\* stock_analyzer.py:44  end_date = post date + 35 days
EndLeadDays == 35
\* stock_analyzer.py:89  min_diff <= 5
ToleranceDays == 5

None == <<>>
Some(v) == <<v>>
IsNone(x) == x = <<>>
Val(x) == x[1]

\* datetime.date(): the calendar day of a datetime.
DateOf(ts) == ts \div TicksPerDay

\* Config.TIME_PERIODS
TIME_PERIODS ==
  << [days |-> 1,  return_attr |-> "return_1d", price_attr |-> "price_1d"],
     [days |-> 3,  return_attr |-> "return_3d", price_attr |-> "price_3d"],
     [days |-> 7,  return_attr |-> "return_1w", price_attr |-> "price_1w"],
     [days |-> 14, return_attr |-> "return_2w", price_attr |-> "price_2w"],
     [days |-> 30, return_attr |-> "return_1m", price_attr |-> "price_1m"] >>

Horizons == 1..Len(TIME_PERIODS)

\* The close prices a series may hold, in cents.
Prices == {1000, 1150}

\* ------------------------------------------------------------ numbers
RECURSIVE Gcd(_, _)
Gcd(a, b) == IF b = 0 THEN a ELSE Gcd(b, a % b)

Abs(x) == IF x < 0 THEN -x ELSE x

\* The rational n/d (d > 0) in lowest terms.
Rat(n, d) ==
  LET g == Gcd(Abs(n), d) IN << n \div g, d \div g >>

\* stock_analyzer.py:91  ((future_price - price_at_post) / price_at_post) * 100
ReturnPctWrongBase(future_price, price_at_post) ==
  Rat((future_price - price_at_post) * 100, future_price)

ReturnPct(future_price, price_at_post) ==
  Rat((future_price - price_at_post) * 100, price_at_post)

\* ----------------------------------------------------- price series
\* A price frame's rows: [date, close], ascending by date as the provider's
\* time index is.  All such sequences of exactly n rows over `days`.
SeriesOfLen(days, prices, n) ==
  { [k \in 1..n |-> [date |-> ds[k], close |-> cs[k]]] :
      ds \in { f \in [1..n -> days] : \A k \in 1..(n - 1) : f[k] < f[k + 1] },
      cs \in [1..n -> prices] }

\* stock_analyzer.py:56  available_dates = stock_data.index.date
AvailableDates(stock_data) ==
  [k \in 1..Len(stock_data.rows) |-> stock_data.rows[k].date]

\* stock_analyzer.py:58-62  the first date, in index order, on or after the post
PostPriceDateFirstRow(available_dates, post_date, k) ==
  IF k > Len(available_dates) THEN None ELSE Some(available_dates[k])

RECURSIVE PostPriceDate(_, _, _)
PostPriceDate(available_dates, post_date, k) ==
  IF k > Len(available_dates) THEN None
  ELSE IF available_dates[k] >= post_date THEN Some(available_dates[k])
  ELSE PostPriceDate(available_dates, post_date, k + 1)

\* stock_analyzer.py:68,90  stock_data.loc[index.date == d, 'Close'].iloc[0]
CloseOn(stock_data, d) ==
  LET k == CHOOSE j \in 1..Len(stock_data.rows) :
             /\ stock_data.rows[j].date = d
             /\ \A m \in 1..(j - 1) : stock_data.rows[m].date # d
  IN stock_data.rows[k].close

\* stock_analyzer.py:79-87  the scan for the closest date on or after the target;
\* min_diff starts at float('inf'), here None.
RECURSIVE ClosestScanAnySide(_, _, _, _)
ClosestScanAnySide(available_dates, target_date, k, acc) ==
  IF k > Len(available_dates) THEN acc
  ELSE LET date == available_dates[k]
           diff == Abs(date - target_date)
       IN IF IsNone(acc.min_diff) \/ diff < Val(acc.min_diff)
          THEN ClosestScanAnySide(available_dates, target_date, k + 1,
                 [closest_date |-> Some(date), min_diff |-> Some(diff)])
          ELSE ClosestScanAnySide(available_dates, target_date, k + 1, acc)

RECURSIVE ClosestScan(_, _, _, _)
ClosestScan(available_dates, target_date, k, acc) ==
  IF k > Len(available_dates) THEN acc
  ELSE LET date == available_dates[k]
       IN IF date >= target_date
          THEN LET diff == date - target_date
               IN IF IsNone(acc.min_diff) \/ diff < Val(acc.min_diff)
                  THEN ClosestScan(available_dates, target_date, k + 1,
                         [closest_date |-> Some(date), min_diff |-> Some(diff)])
                  ELSE ClosestScan(available_dates, target_date, k + 1, acc)
          ELSE ClosestScan(available_dates, target_date, k + 1, acc)

\* stock_analyzer.py:89  if closest_date and min_diff <= 5
AcceptedNoTolerance(scan) == ~IsNone(scan.closest_date)

Accepted(scan) ==
  ~IsNone(scan.closest_date) /\ Val(scan.min_diff) <= ToleranceDays

\* models.py StockPerformance: the horizon fields default to None.
StockPerformanceZeroDefaults(ticker, post_date, price_at_post) ==
  [ ticker |-> ticker, post_date |-> post_date, price_at_post |-> price_at_post,
    price_1d |-> Some(0), price_3d |-> Some(0), price_1w |-> Some(0),
    price_2w |-> Some(0), price_1m |-> Some(0),
    return_1d |-> Some(<< 0, 1 >>), return_3d |-> Some(<< 0, 1 >>),
    return_1w |-> Some(<< 0, 1 >>), return_2w |-> Some(<< 0, 1 >>),
    return_1m |-> Some(<< 0, 1 >>) ]

StockPerformance(ticker, post_date, price_at_post) ==
  [ ticker |-> ticker, post_date |-> post_date, price_at_post |-> price_at_post,
    price_1d |-> None, price_3d |-> None, price_1w |-> None,
    price_2w |-> None, price_1m |-> None,
    return_1d |-> None, return_3d |-> None, return_1w |-> None,
    return_2w |-> None, return_1m |-> None ]

\* stock_analyzer.py:76-94  the horizon loop, from horizon h on.  `acc` holds
\* the record being filled and, for the proofs only, the date matched at each
\* accepted horizon.
RECURSIVE FillHorizons(_, _, _, _, _)
FillHorizons(stock_data, post_date, price_at_post, h, acc) ==
  IF h > Len(TIME_PERIODS) THEN acc
  ELSE LET period == TIME_PERIODS[h]
           target_date == post_date + period.days
           scan == ClosestScan(AvailableDates(stock_data), target_date, 1,
                               [closest_date |-> None, min_diff |-> None])
       IN IF Accepted(scan)
          THEN LET future_price == CloseOn(stock_data, Val(scan.closest_date))
                   return_pct == ReturnPct(future_price, price_at_post)
               IN FillHorizons(stock_data, post_date, price_at_post, h + 1,
                    [ performance |->
                        [acc.performance EXCEPT
                           ![period.return_attr] = Some(return_pct),
                           ![period.price_attr] = Some(future_price)],
                      matched |-> [acc.matched EXCEPT ![h] = scan.closest_date] ])
          ELSE FillHorizons(stock_data, post_date, price_at_post, h + 1, acc)

\* stock_analyzer.py:54-100  the body of the try block for one pair:
\*   "error"     an exception was raised and caught (line 98),
\*   "no_anchor" no trading date on or after the post (line 64-66),
\*   "ok"        a record was appended (line 96).
Analyze(mention_ticker, mention_post_date, stock_data) ==
  LET post_date == DateOf(mention_post_date)
      available_dates == AvailableDates(stock_data)
      post_price_date == PostPriceDate(available_dates, post_date, 1)
  IN IF IsNone(post_price_date) THEN [kind |-> "no_anchor"]
     ELSE IF ~stock_data.has_close THEN [kind |-> "error"]
     ELSE LET price_at_post == CloseOn(stock_data, Val(post_price_date))
              filled == FillHorizons(stock_data, post_date, price_at_post, 1,
                          [ performance |-> StockPerformance(mention_ticker,
                                              mention_post_date, price_at_post),
                            matched |-> [h \in Horizons |-> None] ])
          IN [ kind |-> "ok", performance |-> filled.performance,
               anchor |-> Val(post_price_date), matched |-> filled.matched ]

\* ---------------------------------------------------- validate_ticker
\* ticker_extractor.py:33  required_fields
RequiredFields == {"symbol", "longName", "regularMarketPrice"}

\* The keys the provider's metadata of a candidate may hold.
InfoKeys == RequiredFields \cup {"trailingPegRatio", "currency"}

\* What the provider answers for a candidate: stock.info (a dict, None, or an
\* exception) and stock.history(period="5d") (rows, or an exception).
ProviderAnswers ==
  [ info_raises : BOOLEAN,
    info : {None} \cup { Some(ks) : ks \in SUBSET InfoKeys },
    history_raises : BOOLEAN,
    history_rows : 0..MaxHistoryRows ]

\* ticker_extractor.py:16-42
ValidateTickerEitherCheck(answer) ==
  IF answer.info_raises THEN FALSE
  ELSE IF IsNone(answer.info) \/ Cardinality(Val(answer.info)) <= 1 THEN FALSE
  ELSE LET has_required == \E field \in RequiredFields : field \in Val(answer.info)
       IN IF answer.history_raises THEN FALSE
          ELSE LET has_price_data == answer.history_rows > 0
               IN has_required \/ has_price_data

ValidateTicker(answer) ==
  IF answer.info_raises THEN FALSE
  ELSE IF IsNone(answer.info) \/ Cardinality(Val(answer.info)) <= 1 THEN FALSE
  ELSE LET has_required == \E field \in RequiredFields : field \in Val(answer.info)
       IN IF answer.history_raises THEN FALSE
          ELSE LET has_price_data == answer.history_rows > 0
               IN has_required /\ has_price_data

\* ------------------------------------------------- the price provider
Tickers == {"AAA", "BBB"}

\* yfinance Ticker.history(start, end): the rows of the ticker's history in the
\* requested window.
History(mkt, ticker, start_date, end_date) ==
  [ has_close |-> mkt[ticker].has_close,
    rows |-> SelectSeq(mkt[ticker].rows,
               LAMBDA r : start_date <= r.date /\ r.date <= end_date) ]

\* stock_analyzer.py:18-30  None when the provider raises or has no rows
GetStockData(mkt, ticker, start_date, end_date) ==
  IF mkt[ticker].status = "error" THEN None
  ELSE LET data == History(mkt, ticker, start_date, end_date)
       IN IF data.rows = <<>> THEN None ELSE Some(data)

\* ---------------------------------------------- calculate_performance
\* stock_analyzer.py:38  pair_key = (mention.ticker, mention.post_date.date())
PairKeyFullTimestamp(mention) == << mention.ticker, Val(mention.post_date) >>

PairKey(mention) == << mention.ticker, DateOf(Val(mention.post_date)) >>

\* stock_analyzer.py:48  the frame requested for a mention
Fetched(mkt, mention) ==
  GetStockData(mkt, mention.ticker,
               DateOf(Val(mention.post_date)) - StartLagDays,
               DateOf(Val(mention.post_date)) + EndLeadDays)

\* stock_analyzer.py:34-35  the locals at the start of the call
CpStart ==
  [ pc |-> "loop", i |-> 1, performances |-> <<>>, processed_pairs |-> {},
    log |-> <<>> ]

\* Which path of the loop body (stock_analyzer.py:37-102) the next iteration takes.
Outcome(st, ms, mkt) ==
  IF st.i > Len(ms) THEN "return"
  ELSE LET mention == ms[st.i]
       IN IF IsNone(mention.post_date) THEN "raise"
          ELSE IF PairKey(mention) \in st.processed_pairs THEN "duplicate"
          ELSE LET stock_data == Fetched(mkt, mention)
               IN IF IsNone(stock_data) THEN "no_data"
                  ELSE Analyze(mention.ticker, Val(mention.post_date),
                               Val(stock_data)).kind

\* One iteration of the loop (or the return after the last one).  The log
\* records each price-history request and each time.sleep, in order.
Step(st, ms, mkt) ==
  LET out == Outcome(st, ms, mkt)
      mention == ms[st.i]
      begun == [st EXCEPT !.i = st.i + 1,
                          !.processed_pairs = @ \cup {PairKey(mention)},
                          !.log = Append(@, "request")]
  IN CASE out = "return"    -> [st EXCEPT !.pc = "returned"]
       [] out = "raise"     -> [st EXCEPT !.pc = "raised"]
       [] out = "duplicate" -> [st EXCEPT !.i = st.i + 1]
       [] out = "no_data"   -> begun
       [] out = "no_anchor" -> begun
       [] out = "error"     -> begun
       [] out = "ok"        ->
            [begun EXCEPT
               !.performances =
                  Append(@, Analyze(mention.ticker, Val(mention.post_date),
                                    Val(Fetched(mkt, mention))).performance),
               !.log = Append(@, "sleep")]

\* The whole call: iterate until it returns or raises.
RECURSIVE CalculatePerformance(_, _, _)
CalculatePerformance(st, ms, mkt) ==
  IF st.pc # "loop" THEN st ELSE CalculatePerformance(Step(st, ms, mkt), ms, mkt)

\* ------------------------------------------------------------ inputs
\* The datetimes of posts: two times of day on one day, and the next day.
PostTimestamps ==
  { PostDay0 * TicksPerDay, PostDay0 * TicksPerDay + 1,
    (PostDay0 + 1) * TicksPerDay }

\* A mention; post_date is None when the field is missing.
Mentions ==
  [ ticker : Tickers, post_id : {"p1"},
    post_date : {None} \cup { Some(t) : t \in PostTimestamps } ]

MentionLists == UNION { [1..n -> Mentions] : n \in 0..MaxMentions }

\* The provider's answers for one ticker: an error, or a history over the day
\* before the first post and the day after it, with or without a Close column.
LoopDays == { PostDay0 - 1, PostDay0 + 1 }

Feeds ==
  { [status |-> "error", has_close |-> TRUE, rows |-> <<>>] } \cup
  { [status |-> "ok", has_close |-> TRUE, rows |-> s] :
       s \in UNION { SeriesOfLen(LoopDays, {1000}, n) : n \in 0..2 } } \cup
  { [status |-> "ok", has_close |-> FALSE,
     rows |-> << [date |-> PostDay0 + 1, close |-> 1000] >>] }

\* The frames fetched for the alignment of one pair: any non-empty ascending
\* series in the requested window.
AlignDays == (PostDay0 - StartLagDays)..(PostDay0 + EndLeadDays)

AlignFrames(n) ==
  { [has_close |-> TRUE, rows |-> s] : s \in SeriesOfLen(AlignDays, Prices, n) }

LoopIdle ==
  /\ mentions = <<>>
  /\ market = [t \in Tickers |-> [status |-> "error", has_close |-> TRUE, rows |-> <<>>]]
  /\ cp = [CpStart EXCEPT !.pc = "idle"]

AlignIdle ==
  /\ a_mention = [ticker |-> "AAA", post_id |-> "p1", post_date |-> None]
  /\ a_data = [has_close |-> TRUE, rows |-> <<>>]
  /\ a_result = [kind |-> "idle"]
  /\ a_returned = <<>>

ValidateIdle ==
  /\ v_provider = [info_raises |-> FALSE, info |-> None,
                   history_raises |-> FALSE, history_rows |-> 0]
  /\ v_result = "idle"

\* database.py:10-13,15-54  a fresh database: both tables empty
StoreIdle ==
  /\ db_mentions = {}
  /\ db_perf = {}
  /\ run = [pc |-> "idle"]

ReportIdle ==
  /\ p_data = <<>>
  /\ p_results = [kind |-> "idle"]

ExtractIdle ==
  /\ x_text = <<>>
  /\ x_listed = {}
  /\ x_result = [kind |-> "idle"]

\* ------------------------------------- calculate_performance, stepwise
Init ==
  /\ mentions \in MentionLists
  /\ market \in [Tickers -> Feeds]
  /\ cp = CpStart
  /\ AlignIdle
  /\ ValidateIdle
  /\ StoreIdle
  /\ ReportIdle
  /\ ExtractIdle

\* stock_analyzer.py:38  the mention has no post_date: AttributeError, outside the try
RaiseOnMention ==
  /\ cp.pc = "loop"
  /\ Outcome(cp, mentions, market) = "raise"
  /\ cp' = Step(cp, mentions, market)
  /\ UNCHANGED << mentions, market >>
  /\ UNCHANGED << alignVars, validateVars, storeVars, reportVars, extractVars >>

\* stock_analyzer.py:39-40  the pair was seen before
SkipDuplicate ==
  /\ cp.pc = "loop"
  /\ Outcome(cp, mentions, market) = "duplicate"
  /\ cp' = Step(cp, mentions, market)
  /\ UNCHANGED << mentions, market >>
  /\ UNCHANGED << alignVars, validateVars, storeVars, reportVars, extractVars >>

\* stock_analyzer.py:48-52  the provider has nothing for the window
NoData ==
  /\ cp.pc = "loop"
  /\ Outcome(cp, mentions, market) = "no_data"
  /\ cp' = Step(cp, mentions, market)
  /\ UNCHANGED << mentions, market >>
  /\ UNCHANGED << alignVars, validateVars, storeVars, reportVars, extractVars >>

\* stock_analyzer.py:64-66  no trading date on or after the post
NoAnchor ==
  /\ cp.pc = "loop"
  /\ Outcome(cp, mentions, market) = "no_anchor"
  /\ cp' = Step(cp, mentions, market)
  /\ UNCHANGED << mentions, market >>
  /\ UNCHANGED << alignVars, validateVars, storeVars, reportVars, extractVars >>

\* stock_analyzer.py:98-100  an exception inside the try block
CaughtError ==
  /\ cp.pc = "loop"
  /\ Outcome(cp, mentions, market) = "error"
  /\ cp' = Step(cp, mentions, market)
  /\ UNCHANGED << mentions, market >>
  /\ UNCHANGED << alignVars, validateVars, storeVars, reportVars, extractVars >>

\* stock_analyzer.py:96,102  the record is appended, then the delay
EmitRecord ==
  /\ cp.pc = "loop"
  /\ Outcome(cp, mentions, market) = "ok"
  /\ cp' = Step(cp, mentions, market)
  /\ UNCHANGED << mentions, market >>
  /\ UNCHANGED << alignVars, validateVars, storeVars, reportVars, extractVars >>

\* stock_analyzer.py:104  the loop is over
ReturnPerformances ==
  /\ cp.pc = "loop"
  /\ Outcome(cp, mentions, market) = "return"
  /\ cp' = Step(cp, mentions, market)
  /\ UNCHANGED << mentions, market >>
  /\ UNCHANGED << alignVars, validateVars, storeVars, reportVars, extractVars >>

Next ==
  \/ RaiseOnMention
  \/ SkipDuplicate
  \/ NoData
  \/ NoAnchor
  \/ CaughtError
  \/ EmitRecord
  \/ ReturnPerformances

Spec == Init /\ [][Next]_vars

\* ------------------------------------------- the alignment of one pair
InitAlign ==
  /\ LoopIdle
  /\ a_mention \in { m \in Mentions : m.ticker = "AAA" /\ ~IsNone(m.post_date)
                                      /\ DateOf(Val(m.post_date)) = PostDay0 }
  /\ \E n \in 1..MaxSeriesLen : a_data \in AlignFrames(n)
  /\ a_result = [kind |-> "pending"]
  /\ a_returned = <<>>
  /\ ValidateIdle
  /\ StoreIdle
  /\ ReportIdle
  /\ ExtractIdle

\* The provider when every ticker's history is the frame a_data.
AlignMarket ==
  [t \in Tickers \cup {a_mention.ticker} |->
     [status |-> "ok", has_close |-> a_data.has_close, rows |-> a_data.rows]]

\* stock_analyzer.py:32-104  calculate_performance([a_mention]); a_result keeps
\* what the try block did with the fetched frame.
AlignPair ==
  /\ a_result.kind = "pending"
  /\ a_result' = Analyze(a_mention.ticker, Val(a_mention.post_date), a_data)
  /\ a_returned' = CalculatePerformance(CpStart, << a_mention >>, AlignMarket).performances
  /\ UNCHANGED << a_mention, a_data >>
  /\ UNCHANGED << loopVars, validateVars, storeVars, reportVars, extractVars >>

NextAlign == AlignPair

SpecAlign == InitAlign /\ [][NextAlign]_vars

\* ------------------------------------------ the XYZ scenario and its kin
\* The scenario's post day, 2024-01-02, is day PostDay0; its series has the
\* closes of 01-02, 01-03, 01-09 and 02-01.
ScenarioSeries ==
  << [date |-> PostDay0,      close |-> 1000],
     [date |-> PostDay0 + 1,  close |-> 1050],
     [date |-> PostDay0 + 7,  close |-> 1200],
     [date |-> PostDay0 + 30, close |-> 900] >>

\* The rows a series of the scenario's kin is drawn from: the scenario's own,
\* and trading days 3, 19 and 20 days after the post.
ScenarioRowPool ==
  { ScenarioSeries[k] : k \in 1..Len(ScenarioSeries) } \cup
  { [date |-> PostDay0 + 3,  close |-> 1100],
    [date |-> PostDay0 + 19, close |-> 950],
    [date |-> PostDay0 + 20, close |-> 800] }

\* The rows of S in the order of the provider's time index.
RECURSIVE SortedRows(_)
SortedRows(S) ==
  IF S = {} THEN <<>>
  ELSE LET first == CHOOSE r \in S : \A q \in S : r.date <= q.date
       IN << first >> \o SortedRows(S \ {first})

InitScenario ==
  /\ LoopIdle
  /\ a_mention \in { [ticker |-> "XYZ", post_id |-> "p1", post_date |-> Some(t)] :
                       t \in { PostDay0 * TicksPerDay + tod : tod \in 0..(TicksPerDay - 1) } }
  /\ a_data \in { [has_close |-> TRUE, rows |-> SortedRows(S)] :
                    S \in (SUBSET ScenarioRowPool) \ {{}} }
  /\ a_result = [kind |-> "pending"]
  /\ a_returned = <<>>
  /\ ValidateIdle
  /\ StoreIdle
  /\ ReportIdle
  /\ ExtractIdle

SpecScenario == InitScenario /\ [][NextAlign]_vars

\* ------------------------------------------------- validate_ticker
InitValidate ==
  /\ LoopIdle
  /\ AlignIdle
  /\ v_provider \in ProviderAnswers
  /\ v_result = "pending"
  /\ StoreIdle
  /\ ReportIdle
  /\ ExtractIdle

\* ticker_extractor.py:16-42  one call; it returns True or False, never raises
ValidateCall ==
  /\ v_result = "pending"
  /\ v_result' = IF ValidateTicker(v_provider) THEN "accepted" ELSE "rejected"
  /\ UNCHANGED v_provider
  /\ UNCHANGED << loopVars, alignVars, storeVars, reportVars, extractVars >>

NextValidate == ValidateCall

SpecValidate == InitValidate /\ [][NextValidate]_vars

\* ------------------------------------------- extract_tickers_from_text
\* A text is a sequence of one-character strings.
LowerAlphabet ==
  << "a", "b", "c", "d", "e", "f", "g", "h", "i", "j", "k", "l", "m",
     "n", "o", "p", "q", "r", "s", "t", "u", "v", "w", "x", "y", "z" >>

UpperAlphabet ==
  << "A", "B", "C", "D", "E", "F", "G", "H", "I", "J", "K", "L", "M",
     "N", "O", "P", "Q", "R", "S", "T", "U", "V", "W", "X", "Y", "Z" >>

Digits == { "0", "1", "2", "3", "4", "5", "6", "7", "8", "9" }

LowerLetters == { LowerAlphabet[k] : k \in 1..Len(LowerAlphabet) }
UpperLetters == { UpperAlphabet[k] : k \in 1..Len(UpperAlphabet) }

\* str.upper() on one character.
UpperOf ==
  [ c \in LowerLetters |->
      UpperAlphabet[CHOOSE n \in 1..Len(LowerAlphabet) : LowerAlphabet[n] = c] ]

IsLower(c) == c \in LowerLetters
IsUpper(c) == c \in UpperLetters
\* The regex class \w, which decides the word boundary \b.
IsWordChar(c) == IsLower(c) \/ IsUpper(c) \/ c \in Digits \/ c = "_"

\* ticker_extractor.py:57  text.upper()
UpperText(text) ==
  [ k \in 1..Len(text) |-> IF IsLower(text[k]) THEN UpperOf[text[k]] ELSE text[k] ]

\* ticker_extractor.py:14  \$([A-Z]{1,5})\b at position i (text[i] = "$"): the
\* number of letters captured, 0 when the pattern does not match there.
MatchLenNoBoundary(text, i) ==
  LET ks == { k \in 1..5 :
                /\ i + k <= Len(text)
                /\ \A j \in 1..k : IsUpper(text[i + j]) }
  IN IF ks = {} THEN 0 ELSE CHOOSE k \in ks : \A m \in ks : m <= k

MatchLen(text, i) ==
  LET ks == { k \in 1..5 :
                /\ i + k <= Len(text)
                /\ \A j \in 1..k : IsUpper(text[i + j])
                /\ (i + k = Len(text) \/ ~IsWordChar(text[i + k + 1])) }
  IN IF ks = {} THEN 0 ELSE CHOOSE k \in ks : \A m \in ks : m <= k

RECURSIVE Join(_)
Join(cs) == IF Len(cs) = 0 THEN "" ELSE cs[1] \o Join(Tail(cs))

\* ticker_extractor.py:57  pattern.findall: the captured symbols, left to right
RECURSIVE FindAll(_, _)
FindAll(text, i) ==
  IF i > Len(text) THEN <<>>
  ELSE IF text[i] = "$" /\ MatchLen(text, i) > 0
       THEN << Join(SubSeq(text, i + 1, i + MatchLen(text, i))) >>
              \o FindAll(text, i + MatchLen(text, i) + 1)
       ELSE FindAll(text, i + 1)

\* list(set): some order of the set's elements.
RECURSIVE SetToSeq(_)
SetToSeq(S) ==
  IF S = {} THEN <<>>
  ELSE LET x == CHOOSE y \in S : TRUE IN << x >> \o SetToSeq(S \ {x})

\* What the provider answers for a symbol, given the set of listed symbols.
AnswerFor(listed, symbol) ==
  IF symbol \in listed
  THEN [ info_raises |-> FALSE,
         info |-> Some({"symbol", "longName", "regularMarketPrice"}),
         history_raises |-> FALSE, history_rows |-> 1 ]
  ELSE [ info_raises |-> FALSE, info |-> Some({"trailingPegRatio"}),
         history_raises |-> FALSE, history_rows |-> 0 ]

\* ticker_extractor.py:44-77  the validated tickers, and the number of
\* validate_ticker calls (each followed by the validation delay).
ExtractTickersFromText(text, listed) ==
  LET dollar_tickers == FindAll(UpperText(text), 1)
      unique_tickers == { dollar_tickers[k] : k \in 1..Len(dollar_tickers) }
  IN IF dollar_tickers = <<>>
     THEN [ tickers |-> <<>>, validate_calls |-> 0, sleeps |-> 0 ]
     ELSE [ tickers |-> SetToSeq({ t \in unique_tickers :
                                    ValidateTicker(AnswerFor(listed, t)) }),
            validate_calls |-> Cardinality(unique_tickers),
            sleeps |-> Cardinality(unique_tickers) ]

\* The pieces a text is put together from, and the longest text in pieces.
TextPieces ==
  { << "$" >>, << "A" >>, << "a" >>, << "B", "B", "B", "B", "B" >>,
    << "_" >>, << "1" >>, << " " >> }

MaxPieces == 3

RECURSIVE Flatten(_)
Flatten(pieces) ==
  IF Len(pieces) = 0 THEN <<>> ELSE Head(pieces) \o Flatten(Tail(pieces))

Texts == { Flatten(f) : f \in UNION { [1..n -> TextPieces] : n \in 0..MaxPieces } }

InitExtract ==
  /\ LoopIdle
  /\ AlignIdle
  /\ ValidateIdle
  /\ StoreIdle
  /\ ReportIdle
  /\ x_text \in Texts
  /\ x_listed \in SUBSET {"A"}
  /\ x_result = [kind |-> "pending"]

\* ticker_extractor.py:44-77  one call
ExtractCall ==
  /\ x_result.kind = "pending"
  /\ x_result' = [kind |-> "returned"] @@ ExtractTickersFromText(x_text, x_listed)
  /\ UNCHANGED << x_text, x_listed >>
  /\ UNCHANGED << loopVars, alignVars, validateVars, storeVars, reportVars >>

NextExtract == ExtractCall

SpecExtract == InitExtract /\ [][NextExtract]_vars

\* --------------------------------------------------------- fetch_posts
\* datetime.fromtimestamp: epoch time to the host's local time.
FromTimestamp(created_utc) == created_utc + LocalUtcOffset

\* reddit_scraper.py:46-55  the listing generator for a sort mode; None stands
\* for the ValueError of the else branch.
ListingForAnySort(sort_by, posts) ==
  CASE sort_by = "hot"    -> Some(posts)
    [] sort_by = "new"    -> Some(posts)
    [] sort_by = "rising" -> Some(posts)
    [] sort_by = "top"    -> Some(posts)
    [] OTHER              -> Some(posts)

ListingFor(sort_by, posts) ==
  CASE sort_by = "hot"    -> Some(posts)
    [] sort_by = "new"    -> Some(posts)
    [] sort_by = "rising" -> Some(posts)
    [] sort_by = "top"    -> Some(posts)
    [] OTHER              -> None

\* reddit_scraper.py:68-77  the mentions of one post, one per ticker
RECURSIVE MentionsOf(_, _, _)
MentionsOf(post, tickers, k) ==
  IF k > Len(tickers) THEN <<>>
  ELSE << [ ticker |-> tickers[k], post_id |-> post.id,
            post_date |-> Some(FromTimestamp(post.created_utc)) ] >>
         \o MentionsOf(post, tickers, k + 1)

\* reddit_scraper.py:57-77  the loop over the listing
RECURSIVE ScanPosts(_, _, _, _, _)
ScanPosts(posts, use_title_only, listed, k, acc) ==
  IF k > Len(posts) THEN acc
  ELSE LET post == posts[k]
           text_to_analyze == IF use_title_only THEN post.title
                              ELSE post.title \o << " " >> \o post.selftext
           found == ExtractTickersFromText(text_to_analyze, listed)
       IN ScanPosts(posts, use_title_only, listed, k + 1,
            [ acc EXCEPT !.mentions = @ \o MentionsOf(post, found.tickers, 1),
                         !.validate_calls = @ + found.validate_calls ])

\* reddit_scraper.py:20-80
FetchPosts(posts, use_title_only, sort_by, listed) ==
  LET listing == ListingFor(sort_by, posts)
  IN IF IsNone(listing)
     THEN [ status |-> "ValueError", mentions |-> <<>>,
            forum_calls |-> 0, validate_calls |-> 0 ]
     ELSE ScanPosts(Val(listing), use_title_only, listed, 1,
            [ status |-> "ok", mentions |-> <<>>,
              forum_calls |-> 1, validate_calls |-> 0 ])

\* ------------------------------------------------------------ database
\* A table is the set of its rows.  The AUTOINCREMENT id column is left out:
\* no statement of the program reads it, and a row is identified by the
\* columns of the table's UNIQUE constraint.

\* datetime.isoformat(): "<date>T<time>", here the pair of the two parts.
IsoFormat(ts) == << DateOf(ts), ts % TicksPerDay >>

\* database.py:61-70  the row of a mention
MentionRow(mention) ==
  [ ticker |-> mention.ticker, post_id |-> mention.post_id,
    post_date |-> IsoFormat(Val(mention.post_date)) ]

\* database.py:80-90  the row of a performance record
PerformanceRow(perf) ==
  [ ticker |-> perf.ticker, post_date |-> IsoFormat(perf.post_date),
    price_at_post |-> perf.price_at_post,
    price_1d |-> perf.price_1d, price_3d |-> perf.price_3d,
    price_1w |-> perf.price_1w, price_2w |-> perf.price_2w,
    price_1m |-> perf.price_1m,
    return_1d |-> perf.return_1d, return_3d |-> perf.return_3d,
    return_1w |-> perf.return_1w, return_2w |-> perf.return_2w,
    return_1m |-> perf.return_1m ]

\* database.py:56-73  INSERT OR REPLACE under UNIQUE(ticker, post_id), from
\* the k-th mention on
RECURSIVE SaveMentions(_, _, _)
SaveMentions(rows, ms, k) ==
  IF k > Len(ms) THEN rows
  ELSE LET new == MentionRow(ms[k])
       IN SaveMentions(
            { r \in rows : ~(r.ticker = new.ticker /\ r.post_id = new.post_id) }
              \cup { new },
            ms, k + 1)

\* database.py:74-108  INSERT OR REPLACE under UNIQUE(ticker, post_date), from
\* the k-th record on
RECURSIVE SavePerformancesPlainInsert(_, _, _)
SavePerformancesPlainInsert(rows, perfs, k) ==
  IF k > Len(perfs) THEN rows
  ELSE SavePerformancesPlainInsert(rows \cup { PerformanceRow(perfs[k]) },
                                   perfs, k + 1)

RECURSIVE SavePerformances(_, _, _)
SavePerformances(rows, perfs, k) ==
  IF k > Len(perfs) THEN rows
  ELSE LET new == PerformanceRow(perfs[k])
       IN SavePerformances(
            { r \in rows : ~(r.ticker = new.ticker /\ r.post_date = new.post_date) }
              \cup { new },
            perfs, k + 1)

\* database.py:110-122  the rows with any return set
GetAllPerformanceData(rows) ==
  { r \in rows : \E h \in Horizons : ~IsNone(r[TIME_PERIODS[h].return_attr]) }

\* --------------------------------------------------------- run_analysis
\* The posts the forum may list: two on the first day, one on the next.
PostPool ==
  { [ id |-> "p1", created_utc |-> PostDay0 * TicksPerDay - LocalUtcOffset,
      title |-> << "$", "A", "A", "A" >>, selftext |-> <<>> ],
    [ id |-> "p2", created_utc |-> PostDay0 * TicksPerDay + 1 - LocalUtcOffset,
      title |-> << "$", "a", "a", "a", "!" >>,
      selftext |-> << "$", "B", "B", "B", "_" >> ],
    [ id |-> "p3", created_utc |-> (PostDay0 + 1) * TicksPerDay - LocalUtcOffset,
      title |-> << "$", "Z", "Z", "Z", "Z", "Z", "Z", " ",
                   "$", "b", "b", "b", " ", "$", "A", "A", "A" >>,
      selftext |-> <<>> ] }

\* A listing: distinct posts, at most MaxPosts of them.
Listings ==
  UNION { { f \in [1..n -> PostPool] :
              \A j, k \in 1..n : j # k => f[j].id # f[k].id } : n \in 0..MaxPosts }

\* reddit_scraper.py:33  the sort modes fetch_posts documents
SortModes == { "hot", "new", "rising", "top" }

\* The sort_by arguments run_analysis is called with.
SortInputs == SortModes \cup { "best" }

\* The provider's histories while a run computes performances.
StoreMarkets ==
  { [ AAA |-> f,
      BBB |-> [status |-> "error", has_close |-> TRUE, rows |-> <<>>] ] :
    f \in { [status |-> "error", has_close |-> TRUE, rows |-> <<>>],
            [status |-> "ok", has_close |-> TRUE,
             rows |-> << [date |-> PostDay0, close |-> 1000],
                         [date |-> PostDay0 + 1, close |-> 1150] >>],
            [status |-> "ok", has_close |-> TRUE,
             rows |-> << [date |-> PostDay0, close |-> 1150],
                         [date |-> PostDay0 + 1, close |-> 1000] >>] } }

InitStore ==
  /\ LoopIdle
  /\ AlignIdle
  /\ ValidateIdle
  /\ StoreIdle
  /\ ReportIdle
  /\ ExtractIdle

\* The locals of run_analysis after fetch_posts; sort_known, mentions_at_start
\* and perf_at_start record the call's argument and the tables at its start.
AfterFetch(pc, sort_by, fetched) ==
  [ pc |-> pc, sort_known |-> sort_by \in SortModes, fetched |-> fetched,
    mentions_at_start |-> db_mentions, perf_at_start |-> db_perf ]

\* main.py:24-44  run_analysis is called and fetch_posts raises ValueError,
\* which run_analysis does not catch.
FetchPostsRaises ==
  /\ run.pc = "idle"
  /\ \E sort_by \in SortInputs, posts \in Listings, use_title_only \in BOOLEAN,
        listed \in SUBSET {"AAA"} :
       LET f == FetchPosts(posts, use_title_only, sort_by, listed)
       IN /\ f.status = "ValueError"
          /\ run' = AfterFetch("raised", sort_by, f)
  /\ UNCHANGED << db_mentions, db_perf >>
  /\ UNCHANGED << loopVars, alignVars, validateVars, reportVars, extractVars >>

\* main.py:24-48  run_analysis is called and fetch_posts returns; with no
\* mention the run returns at once.
FetchPostsReturns ==
  /\ run.pc = "idle"
  /\ \E sort_by \in SortInputs, posts \in Listings, use_title_only \in BOOLEAN,
        listed \in SUBSET {"AAA"} :
       LET f == FetchPosts(posts, use_title_only, sort_by, listed)
       IN /\ f.status = "ok"
          /\ run' = AfterFetch(IF f.mentions = <<>> THEN "done" ELSE "calculate",
                               sort_by, f)
  /\ UNCHANGED << db_mentions, db_perf >>
  /\ UNCHANGED << loopVars, alignVars, validateVars, reportVars, extractVars >>

\* main.py:51-57  where run_analysis goes after calculate_performance: on with
\* the saves, or out when the list is empty (or the call raised).
AfterCalculateAlwaysSaves(r) ==
  IF r.pc = "raised" THEN "raised" ELSE "save_mentions"

AfterCalculate(r) ==
  IF r.pc = "raised" THEN "raised"
  ELSE IF r.performances = <<>> THEN "done"
  ELSE "save_mentions"

\* main.py:50-55  calculate_performance; with no record the run returns.
Calculate ==
  /\ run.pc = "calculate"
  /\ \E mkt \in StoreMarkets :
       LET r == CalculatePerformance(CpStart, run.fetched.mentions, mkt)
       IN run' = [ run EXCEPT !.pc = AfterCalculate(r) ]
                 @@ [ performances |-> r.performances ]
  /\ UNCHANGED << db_mentions, db_perf >>
  /\ UNCHANGED << loopVars, alignVars, validateVars, reportVars, extractVars >>

\* main.py:58  self.db.save_mentions(mentions)
SaveMentionsCall ==
  /\ run.pc = "save_mentions"
  /\ db_mentions' = SaveMentions(db_mentions, run.fetched.mentions, 1)
  /\ run' = [run EXCEPT !.pc = "save_performances"]
  /\ UNCHANGED db_perf
  /\ UNCHANGED << loopVars, alignVars, validateVars, reportVars, extractVars >>

\* main.py:59  self.db.save_performances(performances); perf_before keeps the
\* table as it was before the call.
SavePerformancesCall ==
  /\ run.pc = "save_performances"
  /\ db_perf' = SavePerformances(db_perf, run.performances, 1)
  /\ run' = [run EXCEPT !.pc = "report"] @@ [ perf_before |-> db_perf ]
  /\ UNCHANGED db_mentions
  /\ UNCHANGED << loopVars, alignVars, validateVars, reportVars, extractVars >>

\* main.py:62-74  the diagnostics and the reporting read of the stored rows
Report ==
  /\ run.pc = "report"
  /\ run' = [run EXCEPT !.pc = "done"] @@ [ data |-> GetAllPerformanceData(db_perf) ]
  /\ UNCHANGED << db_mentions, db_perf >>
  /\ UNCHANGED << loopVars, alignVars, validateVars, reportVars, extractVars >>

\* main.py:48,55,74,84-100  the call is over (a return, or the ValueError on
\* its way through main); the database stays for the next run.
RunEnds ==
  /\ run.pc \in {"done", "raised"}
  /\ run' = [pc |-> "idle"]
  /\ UNCHANGED << db_mentions, db_perf >>
  /\ UNCHANGED << loopVars, alignVars, validateVars, reportVars, extractVars >>

NextStore ==
  \/ FetchPostsRaises
  \/ FetchPostsReturns
  \/ Calculate
  \/ SaveMentionsCall
  \/ SavePerformancesCall
  \/ Report
  \/ RunEnds

SpecStore == InitStore /\ [][NextStore]_vars

\* ------------------------------------------------ analyze_profitability
\* Arithmetic on returns, which are rationals << n, d >> with d > 0.
RatOf(n) == << n, 1 >>
RatLess(a, b) == a[1] * b[2] < b[1] * a[2]
RatAdd(a, b) == Rat(a[1] * b[2] + b[1] * a[2], a[2] * b[2])

\* visualizer.py:30-31  the periods and their return columns
ReportPeriods == << "1d", "3d", "1w", "2w", "1m" >>
ReturnCol(period) == "return_" \o period

\* visualizer.py:32  df[return_col].dropna()
ValidData(data, return_col) ==
  LET kept == SelectSeq(data, LAMBDA row : ~IsNone(row[return_col]))
  IN [ k \in 1..Len(kept) |-> Val(kept[k][return_col]) ]

\* (valid_data > bound).sum(), (valid_data < bound).sum(): the number of True
\* entries of the boolean series.
CountOver(valid_data, bound) ==
  Cardinality({ k \in 1..Len(valid_data) : RatLess(RatOf(bound), valid_data[k]) })

CountUnder(valid_data, bound) ==
  Cardinality({ k \in 1..Len(valid_data) : RatLess(valid_data[k], RatOf(bound)) })

RECURSIVE SumOf(_)
SumOf(valid_data) ==
  IF Len(valid_data) = 0 THEN RatOf(0)
  ELSE RatAdd(Head(valid_data), SumOf(Tail(valid_data)))

\* visualizer.py:37  valid_data.mean()
MeanOf(valid_data) ==
  LET total == SumOf(valid_data)
  IN Rat(total[1], total[2] * Len(valid_data))

\* visualizer.py:42  (valid_data > 0).mean() * 100
WinRateOfLosses(valid_data) ==
  Rat(CountUnder(valid_data, 0) * 100,
      Len(valid_data))

WinRate(valid_data) ==
  Rat(CountOver(valid_data, 0) * 100,
      Len(valid_data))

\* visualizer.py:43-44  valid_data.max(), valid_data.min()
BestOf(valid_data) ==
  valid_data[CHOOSE k \in 1..Len(valid_data) :
               \A m \in 1..Len(valid_data) : ~RatLess(valid_data[k], valid_data[m])]

WorstOf(valid_data) ==
  valid_data[CHOOSE k \in 1..Len(valid_data) :
               \A m \in 1..Len(valid_data) : ~RatLess(valid_data[m], valid_data[k])]

\* visualizer.py:35-48  the entry of one period.  median_return and
\* std_return are left out (the standard deviation is not a rational).
PeriodStats(valid_data) ==
  [ count |-> Len(valid_data),
    mean_return |-> MeanOf(valid_data),
    positive_returns |-> CountOver(valid_data, 0),
    negative_returns |-> CountUnder(valid_data, 0),
    win_rate |-> WinRate(valid_data),
    best_return |-> BestOf(valid_data),
    worst_return |-> WorstOf(valid_data),
    returns_over_10pct |-> CountOver(valid_data, 10),
    returns_over_25pct |-> CountOver(valid_data, 25),
    returns_under_minus10pct |-> CountUnder(valid_data, -10) ]

\* visualizer.py:14-50  the dict returned: an error entry for no rows, else the
\* number of rows and one entry per period that has a non-null return.
AnalyzeProfitability(data) ==
  IF data = <<>> THEN [ kind |-> "error" ]
  ELSE LET reported ==
             { n \in 1..Len(ReportPeriods) :
                 Len(ValidData(data, ReturnCol(ReportPeriods[n]))) > 0 }
       IN [ kind |-> "results",
            total_stocks_analyzed |-> Len(data),
            time_periods |->
              [ period \in { ReportPeriods[n] : n \in reported } |->
                  PeriodStats(ValidData(data, ReturnCol(period))) ] ]

\* The returns a stored row may hold at the one-week horizon, in percent:
\* both sides of 0, of 10 and of -10, and the thresholds themselves.
ReportReturns == { RatOf(n) : n \in {-15, -10, -5, 0, 5, 10, 15, 25} }

\* Most rows passed to analyze_profitability.
MaxReportRows == 2

\* A stored row with the given one-week and one-month returns.
ReportRow(r1w, r1m) ==
  [ StockPerformance("AAA", << PostDay0, 0 >>, 1000) EXCEPT
      !.return_1w = r1w, !.return_1m = r1m ]

ReportRows ==
  { ReportRow(r1w, r1m) :
      r1w \in {None} \cup { Some(v) : v \in ReportReturns },
      r1m \in {None, Some(Rat(-21, 2))} }

\* Five rows whose one-week returns are 5, -5, 15, -15, 25.
ExampleData ==
  [ k \in 1..5 |-> ReportRow(Some(RatOf(<< 5, -5, 15, -15, 25 >>[k])), None) ]

InitReport ==
  /\ LoopIdle
  /\ AlignIdle
  /\ ValidateIdle
  /\ StoreIdle
  /\ p_data \in UNION { [1..n -> ReportRows] : n \in 0..MaxReportRows }
                  \cup { ExampleData }
  /\ p_results = [kind |-> "pending"]
  /\ ExtractIdle

\* visualizer.py:14-50  one call
AnalyzeProfitabilityCall ==
  /\ p_results.kind = "pending"
  /\ p_results' = AnalyzeProfitability(p_data)
  /\ UNCHANGED p_data
  /\ UNCHANGED << loopVars, alignVars, validateVars, storeVars, extractVars >>

NextReport == AnalyzeProfitabilityCall

SpecReport == InitReport /\ [][NextReport]_vars

\* ===================================================================
\* Properties of calculate_performance
\* ===================================================================
MinOf(S) == CHOOSE x \in S : \A y \in S : x <= y

\* The (ticker, calendar day) of the well-formed mention at position j.
KeyAt(j) == << mentions[j].ticker, DateOf(Val(mentions[j].post_date)) >>

WellFormed == { j \in 1..Len(mentions) : ~IsNone(mentions[j].post_date) }

OccurrencesOf(k) == { j \in WellFormed : KeyAt(j) = k }

RepeatedPairs ==
  { k \in { KeyAt(j) : j \in WellFormed } : Cardinality(OccurrencesOf(k)) > 1 }

RecordsOf(k) ==
  { n \in 1..Len(cp.performances) :
      /\ cp.performances[n].ticker = k[1]
      /\ DateOf(cp.performances[n].post_date) = k[2] }

\* The provider has, for the pair k, a frame with a Close column and a trading
\* date on or after the post's day inside the requested window.
Usable(k) ==
  /\ market[k[1]].status = "ok"
  /\ market[k[1]].has_close
  /\ \E n \in 1..Len(market[k[1]].rows) :
        /\ market[k[1]].rows[n].date >= k[2]
        /\ market[k[1]].rows[n].date <= k[2] + 35

\* C1 as stated: when calculate_performance returns, every (ticker, day) pair
\* that occurs more than once in the mention list has exactly one record, and
\* that record carries the timestamp of the pair's first occurrence.
C1_ExactlyOneRecord ==
  cp.pc = "returned" =>
    \A k \in RepeatedPairs :
      /\ Cardinality(RecordsOf(k)) = 1
      /\ \A n \in RecordsOf(k) :
           cp.performances[n].post_date =
             Val(mentions[MinOf(OccurrencesOf(k))].post_date)

\* C1 amended: when calculate_performance returns, every (ticker, day) pair
\* that occurs more than once has at most one record -- exactly one when the
\* provider has a usable frame for the pair, none otherwise -- and the record
\* carries the timestamp of the pair's first occurrence.
C1_AtMostOneRecord ==
  cp.pc = "returned" =>
    \A k \in RepeatedPairs :
      /\ Cardinality(RecordsOf(k)) = (IF Usable(k) THEN 1 ELSE 0)
      /\ \A n \in RecordsOf(k) :
           cp.performances[n].post_date =
             Val(mentions[MinOf(OccurrencesOf(k))].post_date)

\* A returned call whose list held the same pair twice at different times of
\* day, and whose single record for it carries the first one's timestamp.
C1_Witness ==
  /\ cp.pc = "returned"
  /\ \E k \in RepeatedPairs :
       /\ Cardinality(RecordsOf(k)) = 1
       /\ \E i1, i2 \in OccurrencesOf(k) :
            /\ i1 < i2
            /\ mentions[i1].post_date # mentions[i2].post_date
            /\ i1 = MinOf(OccurrencesOf(k))

\* C5 as stated: the batch is never aborted, and when it returns every pair
\* with a usable frame has its record.
C5_BatchNeverAborted ==
  /\ cp.pc # "raised"
  /\ cp.pc = "returned" =>
       \A j \in WellFormed : Usable(KeyAt(j)) => RecordsOf(KeyAt(j)) # {}

\* C6 as stated: every price-history request is followed by the delay before
\* the next request is made.
C6_DelayAfterEveryPair ==
  \A n \in 1..(Len(cp.log) - 1) :
     cp.log[n] = "request" => cp.log[n + 1] = "sleep"

\* The provider has, for the record's ticker, a trading date on or after the
\* target of horizon h and at most 5 days after it.
Resolvable(perf, h) ==
  \E n \in 1..Len(market[perf.ticker].rows) :
     LET d == market[perf.ticker].rows[n].date
         target == DateOf(perf.post_date) + TIME_PERIODS[h].days
     IN target <= d /\ d <= target + 5

PriceOf(perf, h) == perf[TIME_PERIODS[h].price_attr]
ReturnOf(perf, h) == perf[TIME_PERIODS[h].return_attr]

\* C14: at every point of the call, every pair the loop has taken up (it is in
\* processed_pairs) for which the provider has a Close on or after the post's
\* day has its record, also when no horizon is resolvable; in every record a
\* horizon's price is set exactly when its return is set, and both are None
\* -- not zero -- at every horizon without a trading date within 5 days on or
\* after its target, so a record with no such horizon has all ten fields None.
C14_RecordEvenWithoutHorizons ==
  /\ \A k \in cp.processed_pairs : Usable(k) => RecordsOf(k) # {}
  /\ \A n \in 1..Len(cp.performances) :
       \A h \in Horizons :
          LET perf == cp.performances[n]
          IN /\ IsNone(PriceOf(perf, h)) <=> IsNone(ReturnOf(perf, h))
             /\ ~Resolvable(perf, h) =>
                  /\ PriceOf(perf, h) = None
                  /\ ReturnOf(perf, h) = None

\* A returned call with a record that has an anchor price and no horizon
\* resolvable, all ten horizon fields None, next to a record with a horizon set.
C14_Witness ==
  /\ cp.pc = "returned"
  /\ \E n \in 1..Len(cp.performances) :
       /\ cp.performances[n].price_at_post = 1000
       /\ \A h \in Horizons :
            /\ ~Resolvable(cp.performances[n], h)
            /\ PriceOf(cp.performances[n], h) = None
            /\ ReturnOf(cp.performances[n], h) = None
  /\ \E n \in 1..Len(cp.performances), h \in Horizons :
       ~IsNone(PriceOf(cp.performances[n], h))

\* ===================================================================
\* Properties of the alignment of one pair
\* ===================================================================
ADay == DateOf(Val(a_mention.post_date))

RowDates == { a_data.rows[n].date : n \in 1..Len(a_data.rows) }

RowClose(d) ==
  a_data.rows[CHOOSE n \in 1..Len(a_data.rows) : a_data.rows[n].date = d].close

OnOrAfter(d) == { e \in RowDates : e >= d }

TargetOf(h) == ADay + TIME_PERIODS[h].days

\* The trading date the horizon h must match: the nearest on or after its
\* target, provided it is at most 5 days away.
Expected(h) ==
  IF OnOrAfter(TargetOf(h)) # {} /\ MinOf(OnOrAfter(TargetOf(h))) - TargetOf(h) <= 5
  THEN Some(MinOf(OnOrAfter(TargetOf(h))))
  ELSE None

\* C2: for every horizon, the matched trading date is the nearest one on or
\* after post day + offset and is accepted only within 5 days: then price and
\* return are set from it; otherwise (no such date, or 6 days or more away)
\* both stay unset.  No date before the target is ever matched.
C2_NearestOnOrAfterWithinTolerance ==
  a_result.kind = "ok" =>
    /\ Len(a_returned) = 1
    /\ \A h \in Horizons :
         LET period == TIME_PERIODS[h]
             perf == a_returned[1]
         IN /\ a_result.matched[h] = Expected(h)
            /\ IF IsNone(Expected(h))
               THEN /\ IsNone(perf[period.price_attr])
                    /\ IsNone(perf[period.return_attr])
               ELSE /\ perf[period.price_attr] = Some(RowClose(Val(Expected(h))))
                    /\ ~IsNone(perf[period.return_attr])
                    /\ Val(a_result.matched[h]) >= TargetOf(h)

\* One horizon matched at a gap of exactly 5 days and set, another whose
\* nearest later date is 6 days away left unset although a trading date lies
\* the day before its target.
C2_Witness ==
  /\ a_result.kind = "ok"
  /\ \E h \in Horizons :
       /\ (TargetOf(h) + 5) \in RowDates
       /\ a_result.matched[h] = Some(TargetOf(h) + 5)
       /\ ~IsNone(a_returned[1][TIME_PERIODS[h].price_attr])
  /\ \E h \in Horizons :
       /\ OnOrAfter(TargetOf(h)) # {}
       /\ MinOf(OnOrAfter(TargetOf(h))) = TargetOf(h) + 6
       /\ (TargetOf(h) - 1) \in RowDates
       /\ IsNone(a_returned[1][TIME_PERIODS[h].price_attr])
       /\ IsNone(a_returned[1][TIME_PERIODS[h].return_attr])

\* C3: price_at_post is the close of the earliest trading date of the fetched
\* series on or after the post's calendar day; when there is none the call
\* returns no record for the pair.
C3_AnchorIsEarliestOnOrAfterPost ==
  a_result.kind # "pending" =>
    IF OnOrAfter(ADay) = {}
    THEN a_returned = <<>> /\ a_result.kind = "no_anchor"
    ELSE /\ Len(a_returned) = 1
         /\ a_returned[1].price_at_post = RowClose(MinOf(OnOrAfter(ADay)))
         /\ a_result.anchor = MinOf(OnOrAfter(ADay))

\* A record whose anchor is not the first row: the series starts the day
\* before the post, at another close than the anchor's.
C3_Witness ==
  /\ a_result.kind = "ok"
  /\ Len(a_returned) = 1
  /\ a_data.rows[1].date < ADay
  /\ a_data.rows[1].close # a_returned[1].price_at_post
  /\ a_returned[1].price_at_post = RowClose(MinOf(OnOrAfter(ADay)))

\* C4: at every resolved horizon the stored price is the matched date's close
\* and the stored return is exactly (price - price_at_post) / price_at_post
\* * 100, from the unrounded prices; a horizon has a return exactly when it
\* has a price; 10.00 -> 11.50 gives exactly +15.
C4_ReturnIsSignedPercentage ==
  a_result.kind = "ok" =>
    \A h \in Horizons :
      LET period == TIME_PERIODS[h]
          perf == a_returned[1]
          price == perf[period.price_attr]
          ret == perf[period.return_attr]
      IN /\ IsNone(price) <=> IsNone(ret)
         /\ ~IsNone(price) =>
              /\ Val(price) = RowClose(Val(a_result.matched[h]))
              /\ Val(ret)[2] > 0
              /\ Val(ret)[1] * perf.price_at_post =
                   (Val(price) - perf.price_at_post) * 100 * Val(ret)[2]
              /\ (perf.price_at_post = 1000 /\ Val(price) = 1150)
                   => Val(ret) = << 15, 1 >>

\* A record with price_at_post 10.00, a horizon matched at 11.50 and the
\* return +15 stored for it.
C4_Witness ==
  /\ a_result.kind = "ok"
  /\ a_returned[1].price_at_post = 1000
  /\ \E h \in Horizons :
       /\ a_returned[1][TIME_PERIODS[h].price_attr] = Some(1150)
       /\ a_returned[1][TIME_PERIODS[h].return_attr] = Some(<< 15, 1 >>)

\* C12: for the mention of XYZ posted on 2024-01-02 and the series with
\* closes 10.0 on 01-02, 10.5 on 01-03, 12.0 on 01-09 and 9.0 on 02-01,
\* calculate_performance returns one record with price_at_post 10.0, return_1w
\* +20 matched on 01-09 and return_1m -10 matched on 02-01; of the other
\* horizons, 1d (+5, on 01-03) and 3d (+20, on 01-09, 4 days after its target)
\* are set and 2w is unset.  For the scenario and for every series of its kin,
\* a horizon is set exactly when a trading date lies on or after its target
\* and at most 5 days after it.
C12_ScenarioXYZ ==
  a_result.kind # "pending" =>
    /\ a_result.kind \in {"ok", "no_anchor"}
    /\ a_result.kind = "ok" =>
         /\ Len(a_returned) = 1
         /\ \A h \in Horizons :
              ~IsNone(a_returned[1][TIME_PERIODS[h].return_attr])
                <=> \E d \in RowDates : TargetOf(h) <= d /\ d <= TargetOf(h) + 5
    /\ a_data.rows = ScenarioSeries =>
         /\ a_result.kind = "ok"
         /\ a_returned[1].ticker = "XYZ"
         /\ a_returned[1].post_date = Val(a_mention.post_date)
         /\ a_returned[1].price_at_post = 1000
         /\ a_returned[1].return_1w = Some(<< 20, 1 >>)
         /\ a_returned[1].price_1w = Some(1200)
         /\ a_result.matched[3] = Some(PostDay0 + 7)
         /\ a_returned[1].return_1m = Some(<< -10, 1 >>)
         /\ a_returned[1].price_1m = Some(900)
         /\ a_result.matched[5] = Some(PostDay0 + 30)
         /\ a_returned[1].return_1d = Some(<< 5, 1 >>)
         /\ a_result.matched[1] = Some(PostDay0 + 1)
         /\ a_returned[1].return_3d = Some(<< 20, 1 >>)
         /\ a_result.matched[2] = Some(PostDay0 + 7)
         /\ a_returned[1].return_2w = None
         /\ a_returned[1].price_2w = None

\* The scenario itself, computed: one record, posted at a time of day after
\* midnight, with the 2w horizon unset and the 1m horizon set.
C12_Witness ==
  /\ a_result.kind = "ok"
  /\ a_mention.ticker = "XYZ"
  /\ Val(a_mention.post_date) % TicksPerDay # 0
  /\ a_data.rows = ScenarioSeries
  /\ Len(a_returned) = 1
  /\ IsNone(a_returned[1].return_2w)
  /\ ~IsNone(a_returned[1].return_1m)

\* C15 as stated: in the record of a pair, the trading date matched by any
\* resolved horizon is strictly later than the anchor date of price_at_post.
C15_MatchedStrictlyAfterAnchor ==
  a_result.kind = "ok" =>
    \A h \in Horizons :
       ~IsNone(a_result.matched[h]) => Val(a_result.matched[h]) > a_result.anchor

\* ===================================================================
\* Properties of validate_ticker
\* ===================================================================
NoProviderError == ~v_provider.info_raises /\ ~v_provider.history_raises

MetadataCheck ==
  /\ ~IsNone(v_provider.info)
  /\ Val(v_provider.info) \cap {"symbol", "longName", "regularMarketPrice"} # {}

HistoryCheck == v_provider.history_rows >= 1

\* C9 as stated: the candidate is accepted exactly when no provider call
\* raises, the metadata holds one of symbol, longName, regularMarketPrice, and
\* the 5-day history has an observation.
C9_AcceptedIffBothChecks ==
  v_result # "pending" =>
    (v_result = "accepted" <=> (NoProviderError /\ MetadataCheck /\ HistoryCheck))

\* C9 amended: the candidate is accepted exactly when no provider call raises,
\* the metadata has more than one entry and holds one of symbol, longName,
\* regularMarketPrice, and the 5-day history has an observation; in every
\* other case, a provider exception included, it is rejected.
C9_AcceptedIffBothChecksAndMetadataSize ==
  v_result # "pending" =>
    /\ v_result \in {"accepted", "rejected"}
    /\ v_result = "accepted" <=>
         /\ NoProviderError
         /\ MetadataCheck
         /\ Cardinality(Val(v_provider.info)) > 1
         /\ HistoryCheck

\* A candidate accepted on metadata with a required field and a history row.
C9_Witness ==
  /\ v_result = "accepted"
  /\ MetadataCheck
  /\ HistoryCheck

\* ===================================================================
\* Properties of the store and of run_analysis
\* ===================================================================
\* The calendar day of a stored row: the date part of its post_date text.
DayOfRow(r) == r.post_date[1]

RowKey(r) == << r.ticker, r.post_date >>

\* C7 as stated: the stock_performance table never holds two rows with the
\* same ticker and the same calendar day of post_date.
C7_OneRowPerTickerAndDay ==
  \A r1, r2 \in db_perf :
     (r1.ticker = r2.ticker /\ DayOfRow(r1) = DayOfRow(r2)) => r1 = r2

SavedKeys ==
  { << run.performances[n].ticker, IsoFormat(run.performances[n].post_date) >> :
      n \in 1..Len(run.performances) }

\* The last record of the saved list with the key k, as a row.
LastSaved(k) ==
  LET at == { n \in 1..Len(run.performances) :
                << run.performances[n].ticker,
                   IsoFormat(run.performances[n].post_date) >> = k }
      last == CHOOSE n \in at : \A m \in at : m <= n
  IN PerformanceRow(run.performances[last])

\* C8: right after save_performances, every key (ticker, post_date) of the
\* saved list has exactly one row, holding the values of the last record
\* saved under it, and the rows of all other keys are those of the table
\* before the call; the call raises nothing.
C8_SaveIsUpsert ==
  run.pc = "report" =>
    /\ \A k \in SavedKeys :
         { r \in db_perf : RowKey(r) = k } = { LastSaved(k) }
    /\ { r \in db_perf : RowKey(r) \notin SavedKeys }
         = { r \in run.perf_before : RowKey(r) \notin SavedKeys }

\* A save that replaced the row of one key by other values and left the row of
\* another key as it was.
C8_Witness ==
  /\ run.pc = "report"
  /\ \E r \in run.perf_before : RowKey(r) \in SavedKeys /\ r \notin db_perf
  /\ \E r \in run.perf_before : RowKey(r) \notin SavedKeys /\ r \in db_perf

\* C10: a run called with a sort mode outside {hot, new, top, rising} is in
\* no other state than "raised", with no forum listing fetched, no validation
\* call made, no mention produced and both tables as they were at its start.
C10_InvalidSortRaisesBeforeAnyWork ==
  (run.pc # "idle" /\ ~run.sort_known) =>
    /\ run.pc = "raised"
    /\ run.fetched.status = "ValueError"
    /\ run.fetched.forum_calls = 0
    /\ run.fetched.validate_calls = 0
    /\ run.fetched.mentions = <<>>
    /\ db_mentions = run.mentions_at_start
    /\ db_perf = run.perf_at_start

\* A run that raised on its sort mode over a database that earlier runs filled.
C10_Witness ==
  /\ run.pc = "raised"
  /\ ~run.sort_known
  /\ db_perf # {}
  /\ db_mentions # {}

Has(field) == field \in DOMAIN run

TablesAsAtStart ==
  /\ db_mentions = run.mentions_at_start
  /\ db_perf = run.perf_at_start

MentionsStored ==
  \A n \in 1..Len(run.fetched.mentions) :
     MentionRow(run.fetched.mentions[n]) \in db_mentions

PerformancesStored ==
  \A n \in 1..Len(run.performances) :
     PerformanceRow(run.performances[n]) \in db_perf

\* C16: in a run, nothing is saved before calculate_performance has returned
\* a non-empty list.  A run whose calculate_performance returned the empty
\* list is over: both tables are as at its start, save_performances was not
\* entered and no reporting read was made.  Otherwise save_mentions runs on
\* the untouched tables, save_performances starts with the mentions stored
\* and the performance table untouched, and the reporting read comes after
\* both and returns the stored rows that have a return.
C16_SaveOnlyAfterNonEmptyCalculate ==
  /\ run.pc = "calculate" => TablesAsAtStart
  /\ (Has("performances") /\ run.performances = <<>>) =>
       /\ run.pc = "done"
       /\ TablesAsAtStart
       /\ ~Has("perf_before")
       /\ ~Has("data")
  /\ run.pc = "save_mentions" =>
       /\ run.performances # <<>>
       /\ TablesAsAtStart
  /\ run.pc = "save_performances" =>
       /\ run.performances # <<>>
       /\ MentionsStored
       /\ db_perf = run.perf_at_start
       /\ ~Has("perf_before")
  /\ run.pc = "report" =>
       /\ run.perf_before = run.perf_at_start
       /\ MentionsStored
       /\ PerformancesStored
       /\ ~Has("data")
  /\ Has("data") =>
       /\ run.pc = "done"
       /\ Has("perf_before")
       /\ MentionsStored
       /\ PerformancesStored
       /\ run.data = { r \in db_perf :
                         \/ r.return_1d # None \/ r.return_3d # None
                         \/ r.return_1w # None \/ r.return_2w # None
                         \/ r.return_1m # None }

\* A run that found mentions and got no record, over tables that an earlier
\* run filled: it is over with both tables as they were.
C16_Witness ==
  /\ Has("performances")
  /\ run.performances = <<>>
  /\ run.fetched.mentions # <<>>
  /\ db_perf # {}
  /\ db_mentions # {}
  /\ db_perf = run.perf_at_start
  /\ \E n \in 1..Len(run.fetched.mentions) :
        MentionRow(run.fetched.mentions[n]) \notin db_mentions

\* ===================================================================
\* Properties of analyze_profitability
\* ===================================================================
\* The rows of p_data with a non-null return in the column.
RowsWith(return_col) ==
  { k \in 1..Len(p_data) : ~IsNone(p_data[k][return_col]) }

ReturnAt(k, return_col) == Val(p_data[k][return_col])

\* The sum of the column over the rows S, as an unreduced fraction.
RECURSIVE TotalOver(_, _)
TotalOver(S, return_col) ==
  IF S = {} THEN << 0, 1 >>
  ELSE LET k == CHOOSE j \in S : TRUE
           v == ReturnAt(k, return_col)
           rest == TotalOver(S \ {k}, return_col)
       IN << v[1] * rest[2] + rest[1] * v[2], v[2] * rest[2] >>

\* The general rule of C11: a period is reported exactly when some row has a
\* non-null return in its column, and then, over those rows only, win_rate is
\* 100 * (number of returns > 0) / (number of returns), returns_over_10pct and
\* returns_under_minus10pct count the returns > 10 and < -10, and mean_return
\* is their sum divided by their number.
PerHorizonRule ==
  p_results.kind = "results" =>
    \A n \in 1..Len(ReportPeriods) :
      LET period == ReportPeriods[n]
          col == "return_" \o period
          rows == RowsWith(col)
          total == TotalOver(rows, col)
      IN /\ period \in DOMAIN p_results.time_periods <=> rows # {}
         /\ rows # {} =>
              LET st == p_results.time_periods[period]
              IN /\ st.win_rate[1] * Cardinality(rows) =
                      100 * Cardinality({ k \in rows : ReturnAt(k, col)[1] > 0 })
                          * st.win_rate[2]
                 /\ st.returns_over_10pct =
                      Cardinality({ k \in rows :
                         ReturnAt(k, col)[1] > 10 * ReturnAt(k, col)[2] })
                 /\ st.returns_under_minus10pct =
                      Cardinality({ k \in rows :
                         ReturnAt(k, col)[1] < (-10) * ReturnAt(k, col)[2] })
                 /\ st.mean_return[1] * total[2] * Cardinality(rows) =
                      total[1] * st.mean_return[2]

\* C11 as stated: the per-horizon rule holds, and the returns 5, -5, 15, -15,
\* 25 at one horizon are reported with win_rate 40, returns_over_10pct 2,
\* returns_under_minus10pct 1 and mean 5.
C11_ExampleWinRate40 ==
  /\ PerHorizonRule
  /\ (p_results.kind = "results" /\ p_data = ExampleData) =>
       /\ p_results.time_periods["1w"].win_rate = << 40, 1 >>
       /\ p_results.time_periods["1w"].returns_over_10pct = 2
       /\ p_results.time_periods["1w"].returns_under_minus10pct = 1
       /\ p_results.time_periods["1w"].mean_return = << 5, 1 >>

\* C11 amended: the per-horizon rule holds, and the returns 5, -5, 15, -15,
\* 25 at one horizon are reported with win_rate 60 (three of the five are
\* > 0), returns_over_10pct 2, returns_under_minus10pct 1 and mean 5.
C11_PerHorizonStatistics ==
  /\ PerHorizonRule
  /\ (p_results.kind = "results" /\ p_data = ExampleData) =>
       /\ p_results.time_periods["1w"].win_rate = << 60, 1 >>
       /\ p_results.time_periods["1w"].returns_over_10pct = 2
       /\ p_results.time_periods["1w"].returns_under_minus10pct = 1
       /\ p_results.time_periods["1w"].mean_return = << 5, 1 >>

\* The example's five rows analysed: one period reported, over all five rows.
C11_Witness ==
  /\ p_results.kind = "results"
  /\ p_data = ExampleData
  /\ DOMAIN p_results.time_periods = {"1w"}
  /\ p_results.time_periods["1w"].count = 5

\* ===================================================================
\* Properties of extract_tickers_from_text
\* ===================================================================
IsLetter(c) == c \in LowerLetters \cup UpperLetters

\* The text holds a dollar sign followed by 1 to 5 letters of either case
\* that end the text or are followed by a character other than a letter, a
\* digit or an underscore.
HasDollarToken(text) ==
  \E i \in 1..Len(text), k \in 1..5 :
     /\ text[i] = "$"
     /\ i + k <= Len(text)
     /\ \A j \in 1..k : IsLetter(text[i + j])
     /\ \/ i + k = Len(text)
        \/ ~(IsLetter(text[i + k + 1]) \/ text[i + k + 1] \in Digits
               \/ text[i + k + 1] = "_")

\* C13: for every text without a dollar-sign-prefixed 1-5 letter token, the
\* call returns the empty list, calls validate_ticker (and so the provider)
\* zero times and sleeps zero times.
C13_NoCandidateNoCalls ==
  (x_result.kind = "returned" /\ ~HasDollarToken(x_text)) =>
    /\ x_result.tickers = <<>>
    /\ x_result.validate_calls = 0
    /\ x_result.sleeps = 0

\* A text with a dollar sign directly before a letter and still no token (the
\* letters run on into a sixth letter, a digit or an underscore), extracted
\* while the provider lists the symbol: nothing returned, nothing called.
C13_Witness ==
  /\ x_result.kind = "returned"
  /\ ~HasDollarToken(x_text)
  /\ \E i \in 1..(Len(x_text) - 1) : x_text[i] = "$" /\ IsLetter(x_text[i + 1])
  /\ x_listed = {"A"}
  /\ x_result.tickers = <<>>
  /\ x_result.validate_calls = 0

====
